---- MODULE Spec2Model ----
(***************************************************************************)
(* Model of the NATS command-and-control engine of print-nanny-cli:        *)
(*   nats/src/subscriber.rs  NatsSubscriber (connect loop, dispatcher)     *)
(*   nats/src/message.rs     NatsRequest / NatsReply and their handlers    *)
(*                                                                         *)
(* Strings that are NATS subjects are kept in split form: a subject is the *)
(* sequence of its dot-delimited segments, so "pi.myhost.status.boot" is   *)
(* <<"pi", "myhost", "status", "boot">>.                                   *)
(*                                                                         *)
(* A JSON value is a tagged tuple: <<"absent">>, <<"str", s>>,             *)
(* <<"subj", segments>> (a string holding a subject), <<"arr", seq>> or    *)
(* <<"obj", object>>.  A JSON object is a function from FieldNames to JSON *)
(* values; a field the object does not have is Absent.                     *)
(***************************************************************************)
EXTENDS Integers, Sequences, FiniteSets, TLC

VARIABLES
    pc,          \* where subscribe_nats_subject is: connecting, connected, listening, returned, panicked
    self,        \* the NatsSubscriber built by new(args)
    attempts,    \* connection attempts made so far
    inbound,     \* every message the subscription has delivered, in order
    ended,       \* TRUE once the subscription stream has yielded None
    taken,       \* how many messages for_each_concurrent has pulled from the stream
    tasks,       \* tasks[i]: the closure future of inbound[i]
    published,   \* every nats_client.publish call made for a reply, in order
    codec,       \* the protocol codec under test (specification SpecCodec)
    router,      \* the subject router under test (specification SpecRouter)
    command,     \* one invocation of handle_incoming (specification SpecCommands)
    connection,  \* the connection manager under test (specification SpecConnect)
    flush        \* one call of try_flush_buffer (specification SpecFlush)

vars == <<pc, self, attempts, inbound, ended, taken, tasks, published, codec, router, command,
          connection, flush>>

dispatcherVars == <<pc, self, attempts, inbound, ended, taken, tasks, published>>

----------------------------------------------------------------------------
(* Bounds of the model *)

MaxMessages == 2

MaxWorkers == 2

MaxConnectAttempts == 1

MaxSubjectLen == 4

\* Option<T>: None is <<>>, Some(x) is <<x>>
None == <<>>

Some(x) == <<x>>

----------------------------------------------------------------------------
(* JSON values *)

Absent == <<"absent">>

Str(s) == <<"str", s>>

Subj(segments) == <<"subj", segments>>

Arr(seq) == <<"arr", seq>>

Obj(o) == <<"obj", o>>

FieldNames ==
    {"subject", "name", "files", "format", "parent_commit", "data", "commit",
     "request", "job", "changes", "detail", "error", "subject_pattern"}

EmptyObject == [f \in FieldNames |-> Absent]

Put(o, f, v) == [o EXCEPT ![f] = v]

Kind(v) == v[1]

SettingsFormat == {"Json", "Toml", "Yaml"}

----------------------------------------------------------------------------
(* The tagged unions NatsRequest and NatsReply *)

RequestVariants ==
    {"ConnectPrintNannyCloudRequest",
     "SystemdManagerDisableUnitRequest", "SystemdManagerEnableUnitRequest",
     "SystemdManagerReloadUnitRequest", "SystemdManagerRestartUnitRequest",
     "SystemdManagerStartUnitRequest", "SystemdManagerStopUnitRequest",
     "GstPipelineSettingsLoadRequest", "GstPipelineSettingsApplyRequest",
     "GstPipelineSettingsRevertRequest",
     "KlipperSettingsLoadRequest", "KlipperSettingsApplyRequest",
     "KlipperSettingsRevertRequest",
     "MoonrakerSettingsLoadRequest", "MoonrakerSettingsApplyRequest",
     "MoonrakerSettingsRevertRequest",
     "OctoPrintSettingsLoadRequest", "OctoPrintSettingsApplyRequest",
     "OctoPrintSettingsRevertRequest"}

Systemd1Manager(op) == <<"pi", "dbus", "org", "freedesktop", "systemd1", "Manager", op>>

\* #[serde(rename = "...")] of each NatsRequest variant
RenameOf(v) ==
    CASE v = "ConnectPrintNannyCloudRequest" -> <<"pi", "command", "connect_printnanny_cloud_account">>
      [] v = "SystemdManagerDisableUnitRequest" -> Systemd1Manager("DisableUnit")
      [] v = "SystemdManagerEnableUnitRequest" -> Systemd1Manager("EnableUnit")
      [] v = "SystemdManagerReloadUnitRequest" -> Systemd1Manager("ReloadUnit")
      [] v = "SystemdManagerRestartUnitRequest" -> Systemd1Manager("RestartUnit")
      [] v = "SystemdManagerStartUnitRequest" -> Systemd1Manager("StartUnit")
      [] v = "SystemdManagerStopUnitRequest" -> Systemd1Manager("StopUnit")
      [] v = "GstPipelineSettingsLoadRequest" -> <<"pi", "settings", "gst_pipeline", "load">>
      [] v = "GstPipelineSettingsApplyRequest" -> <<"pi", "settings", "gst_pipeline", "apply">>
      [] v = "GstPipelineSettingsRevertRequest" -> <<"pi", "settings", "gst_pipeline", "revert">>
      [] v = "KlipperSettingsLoadRequest" -> <<"pi", "settings", "klipper", "load">>
      [] v = "KlipperSettingsApplyRequest" -> <<"pi", "settings", "klipper", "apply">>
      [] v = "KlipperSettingsRevertRequest" -> <<"pi", "settings", "klipper", "revert">>
      [] v = "MoonrakerSettingsLoadRequest" -> <<"pi", "settings", "moonraker", "load">>
      [] v = "MoonrakerSettingsApplyRequest" -> <<"pi", "settings", "moonraker", "apply">>
      [] v = "MoonrakerSettingsRevertRequest" -> <<"pi", "settings", "moonraker", "revert">>
      [] v = "OctoPrintSettingsLoadRequest" -> <<"pi", "settings", "octoprint", "load">>
      [] v = "OctoPrintSettingsApplyRequest" -> <<"pi", "settings", "octoprint", "apply">>
      [] v = "OctoPrintSettingsRevertRequest" -> <<"pi", "settings", "octoprint", "revert">>

RequestTags == [v \in RequestVariants |-> RenameOf(v)]

RequestTag(v) == RequestTags[v]

\* The variants whose tag is the pattern: one, or none for an unknown pattern
VariantsTagged == [p \in {RequestTags[v] : v \in RequestVariants} |-> {v \in RequestVariants : RequestTags[v] = p}]

VariantsOf(pattern) == IF pattern \in DOMAIN VariantsTagged THEN VariantsTagged[pattern] ELSE {}

\* The payload struct of each NatsRequest variant: its fields and their kinds.
\* "format" is a SettingsFormat, serialized as the variant's name.
RequestFields(v) ==
    CASE v \in {"ConnectPrintNannyCloudRequest", "SystemdManagerReloadUnitRequest",
                "SystemdManagerRestartUnitRequest", "SystemdManagerStartUnitRequest",
                "SystemdManagerStopUnitRequest"} -> {<<"name", "str">>}
      [] v \in {"SystemdManagerDisableUnitRequest", "SystemdManagerEnableUnitRequest"} ->
            {<<"files", "arr">>}
      [] v \in {"GstPipelineSettingsLoadRequest", "KlipperSettingsLoadRequest",
                "MoonrakerSettingsLoadRequest", "OctoPrintSettingsLoadRequest"} ->
            {<<"format", "str">>}
      [] v \in {"GstPipelineSettingsApplyRequest", "KlipperSettingsApplyRequest",
                "MoonrakerSettingsApplyRequest"} ->
            {<<"parent_commit", "str">>, <<"format", "str">>}
      [] v = "OctoPrintSettingsApplyRequest" ->
            {<<"data", "str">>, <<"parent_commit", "str">>, <<"format", "str">>}
      [] v \in {"GstPipelineSettingsRevertRequest", "KlipperSettingsRevertRequest",
                "MoonrakerSettingsRevertRequest", "OctoPrintSettingsRevertRequest"} ->
            {<<"commit", "str">>}

\* The NatsReply variant declared beside each NatsRequest variant (same serde tag).
ReplyVariantOf(v) ==
    CASE v = "ConnectPrintNannyCloudRequest" -> "ConnectPrintNannyCloudReply"
      [] v = "SystemdManagerDisableUnitRequest" -> "SystemdManagerDisableUnitReply"
      [] v = "SystemdManagerEnableUnitRequest" -> "SystemdManagerEnableUnitReply"
      [] v = "SystemdManagerReloadUnitRequest" -> "SystemdManagerReloadUnitReply"
      [] v = "SystemdManagerRestartUnitRequest" -> "SystemdManagerRestartUnitReply"
      [] v = "SystemdManagerStartUnitRequest" -> "SystemdManagerStartUnitReply"
      [] v = "SystemdManagerStopUnitRequest" -> "SystemdManagerStopUnitReply"
      [] v = "GstPipelineSettingsLoadRequest" -> "GstPipelineSettingsLoadReply"
      [] v = "GstPipelineSettingsApplyRequest" -> "GstPipelineSettingsApplyReply"
      [] v = "GstPipelineSettingsRevertRequest" -> "GstPipelineSettingsRevertReply"
      [] v = "KlipperSettingsLoadRequest" -> "KlipperSettingsLoadReply"
      [] v = "KlipperSettingsApplyRequest" -> "KlipperSettingsApplyReply"
      [] v = "KlipperSettingsRevertRequest" -> "KlipperSettingsRevertReply"
      [] v = "MoonrakerSettingsLoadRequest" -> "MoonrakerSettingsLoadReply"
      [] v = "MoonrakerSettingsApplyRequest" -> "MoonrakerSettingsApplyReply"
      [] v = "MoonrakerSettingsRevertRequest" -> "MoonrakerSettingsRevertReply"
      [] v = "OctoPrintSettingsLoadRequest" -> "OctoPrintSettingsLoadReply"
      [] v = "OctoPrintSettingsApplyRequest" -> "OctoPrintSettingsApplyReply"
      [] v = "OctoPrintSettingsRevertRequest" -> "OctoPrintSettingsRevertReply"

ReplyVariants == {ReplyVariantOf(v) : v \in RequestVariants}

\* #[serde(rename = "...")] of each NatsReply variant: that of its request variant
ReplyTags == [w \in ReplyVariants |-> RequestTags[CHOOSE v \in RequestVariants : ReplyVariantOf(v) = w]]

ReplyTag(w) == ReplyTags[w]

----------------------------------------------------------------------------
(* serde: derive(Serialize, Deserialize) with #[serde(tag = "subject")] *)

FieldsOf(fields) == {fk[1] : fk \in fields}

\* A value of the field's declared type; "format" must name a SettingsFormat.
FieldAccepts(f, k, v) ==
    /\ Kind(v) = k
    /\ f = "format" => v[2] \in SettingsFormat

\* Deserialize of a plain struct: every declared field must be present with its
\* type, fields the struct does not declare are ignored.
DeserializeStruct(fields, o) ==
    IF \A fk \in fields : FieldAccepts(fk[1], fk[2], o[fk[1]])
    THEN [ok |-> TRUE, body |-> [f \in FieldNames |-> IF f \in FieldsOf(fields) THEN o[f] ELSE Absent]]
    ELSE [ok |-> FALSE, body |-> EmptyObject]

SerializeRequestDropsTag(request) == request.body

\* Serialize of NatsRequest: the payload struct's fields plus the tag under "subject".
SerializeRequest(request) == Put(request.body, "subject", Subj(RequestTag(request.variant)))

\* Serialize of NatsReply: the reply struct's fields plus the tag under "subject".
SerializeReply(reply) == Put(reply.body, "subject", Subj(ReplyTag(reply.variant)))

\* serde_json::to_vec / from_slice: the bytes of a JSON document are kept as the
\* document; bytes that are no JSON document are NotJson.
NotJson == <<"notjson">>

to_vec(o) == Obj(o)

DecodeError == [ok |-> FALSE, request |-> [variant |-> "none", body |-> EmptyObject]]

\* Deserialize of NatsRequest (internally tagged): the variant is chosen by the
\* "subject" field of the document, the rest is the variant's struct.
DeserializeRequest(bytes) ==
    IF Kind(bytes) # "obj" THEN DecodeError
    ELSE LET o == bytes[2] IN
         IF Kind(o["subject"]) # "subj" THEN DecodeError
         ELSE LET vs == VariantsOf(o["subject"][2]) IN
              IF vs = {} THEN DecodeError
              ELSE LET v == CHOOSE x \in vs : TRUE
                       d == DeserializeStruct(RequestFields(v), o)
                   IN  IF d.ok THEN [ok |-> TRUE, request |-> [variant |-> v, body |-> d.body]]
                       ELSE DecodeError

----------------------------------------------------------------------------
(* Subject Router and Protocol Codec entry points used by the dispatcher.   *)
(* NatsRequestHandler::replace_subject_pattern and ::deserialize_payload    *)
(* are called by subscriber.rs; their contract is the specification's 4.1   *)
(* and 4.2.                                                                 *)

Placeholder == "{pi_id}"

\* str::to_lowercase on the segments the model uses
to_lowercase(s) ==
    CASE s = "MyHost" -> "myhost"
      [] s = "MYHOST" -> "myhost"
      [] s = "Pi" -> "pi"
      [] s = "Manager" -> "manager"
      [] s = "StartUnit" -> "startunit"
      [] s = "StopUnit" -> "stopunit"
      [] s = "RestartUnit" -> "restartunit"
      [] s = "ReloadUnit" -> "reloadunit"
      [] s = "EnableUnit" -> "enableunit"
      [] s = "DisableUnit" -> "disableunit"
      [] OTHER -> s

RECURSIVE ReplaceFirst(_, _, _)
ReplaceFirst(segments, pattern, replace) ==
    IF segments = <<>> THEN <<>>
    ELSE IF to_lowercase(Head(segments)) = pattern
         THEN <<replace>> \o Tail(segments)
         ELSE <<Head(segments)>> \o ReplaceFirst(Tail(segments), pattern, replace)

\* canonicalize: split on ".", replace the segment equal to the (lower-cased)
\* device id, compared case-insensitively, by the placeholder, rejoin.
replace_subject_pattern(subject, pattern, replace) == ReplaceFirst(subject, pattern, replace)

\* decode, keyed by the canonical pattern: an unknown pattern or a payload that
\* is not the pattern's struct is a decode error.
deserialize_payload(subject_pattern, payload) ==
    LET vs == VariantsOf(subject_pattern) IN
    IF vs = {} \/ Kind(payload) # "obj" THEN DecodeError
    ELSE LET v == CHOOSE x \in vs : TRUE
             d == DeserializeStruct(RequestFields(v), payload[2])
         IN  IF d.ok THEN [ok |-> TRUE, request |-> [variant |-> v, body |-> d.body]]
             ELSE DecodeError

----------------------------------------------------------------------------
(* Handlers: impl NatsRequestReplyHandler for each request struct and for   *)
(* NatsRequest.  env is what the collaborator (the systemd manager over     *)
(* D-Bus, or the settings repository) answers.                              *)

Environments ==
    {[ok |-> TRUE, bus |-> TRUE, job |-> "/org/freedesktop/systemd1/job/42", changes |-> <<"symlink">>,
      data |-> "webcam: {}", parent_commit |-> "abc123", error |-> ""],
     [ok |-> FALSE, bus |-> TRUE, job |-> "", changes |-> <<>>,
      data |-> "", parent_commit |-> "", error |-> "Unit doesnotexist.service not found."]}

\* zbus::Connection::system() or ManagerProxy::new fails: no operation is called.
BusDown ==
    [ok |-> FALSE, bus |-> FALSE, job |-> "", changes |-> <<>>,
     data |-> "", parent_commit |-> "", error |-> "Failed to connect to the system bus"]

JobVariants ==
    {"SystemdManagerReloadUnitRequest", "SystemdManagerRestartUnitRequest",
     "SystemdManagerStartUnitRequest", "SystemdManagerStopUnitRequest"}

ChangesVariants == {"SystemdManagerDisableUnitRequest", "SystemdManagerEnableUnitRequest"}

NoCall == [op |-> "none", args |-> <<>>]

\* The service-manager operation each proxy handler calls.
ManagerCall(v, body) ==
    CASE v = "SystemdManagerStartUnitRequest" -> [op |-> "start_unit", args |-> <<body["name"], "replace">>]
      [] v = "SystemdManagerRestartUnitRequest" -> [op |-> "restart_unit", args |-> <<body["name"], "replace">>]
      [] v = "SystemdManagerStopUnitRequest" -> [op |-> "stop_unit", args |-> <<body["name"], "replace">>]
      [] v = "SystemdManagerReloadUnitRequest" -> [op |-> "restart_unit", args |-> <<body["name"], "replace">>]
      [] v = "SystemdManagerEnableUnitRequest" -> [op |-> "enable_unit_files", args |-> <<body["files"], FALSE, FALSE>>]
      [] v = "SystemdManagerDisableUnitRequest" -> [op |-> "disable_unit_files", args |-> <<body["files"], FALSE>>]
      [] OTHER -> NoCall

\* The calls a handler makes on the service manager when the collaborator
\* answers env: none when the bus cannot be reached, else the proxy's one call.
ManagerCalls(request, env) ==
    IF env.bus /\ ManagerCall(request.variant, request.body) # NoCall
    THEN <<ManagerCall(request.variant, request.body)>>
    ELSE <<>>

NoReply == [variant |-> "none", body |-> EmptyObject]

Panic == [status |-> "panic", body |-> EmptyObject, error |-> "not yet implemented"]

StructHandleForgetsRequest(v, body, env) ==
    IF v \in JobVariants /\ env.ok
    THEN [status |-> "ok", body |-> Put(EmptyObject, "job", Str(env.job)), error |-> ""]
    ELSE IF env.ok /\ v \in ChangesVariants \cup {"OctoPrintSettingsLoadRequest"}
    THEN [status |-> "ok", body |-> Put(EmptyObject, "request", Obj(EmptyObject)), error |-> ""]
    ELSE IF v \in JobVariants \cup ChangesVariants \cup {"OctoPrintSettingsLoadRequest"}
    THEN [status |-> "err", body |-> EmptyObject, error |-> env.error]
    ELSE Panic

StructHandleSwallowsError(v, body, env) ==
    IF v \in JobVariants
    THEN [status |-> "ok", error |-> "",
          body |-> Put(Put(EmptyObject, "job", Str(env.job)), "request", Obj(body))]
    ELSE IF v \in ChangesVariants
    THEN [status |-> "ok", error |-> "",
          body |-> Put(Put(EmptyObject, "changes", Arr(env.changes)), "request", Obj(body))]
    ELSE IF v = "OctoPrintSettingsLoadRequest" /\ ~env.ok
    THEN [status |-> "err", body |-> EmptyObject, error |-> env.error]
    ELSE IF v = "OctoPrintSettingsLoadRequest"
    THEN [status |-> "ok", error |-> "",
          body |-> Put(Put(Put(Put(EmptyObject, "request", Obj(body)),
                               "parent_commit", Str(env.parent_commit)),
                           "data", Str(env.data)),
                       "format", Str("Yaml"))]
    ELSE Panic

\* handle() of the request struct of variant v: the reply struct, an error, or todo!().
StructHandle(v, body, env) ==
    IF v \in JobVariants THEN
        IF env.ok
        THEN [status |-> "ok", error |-> "",
              body |-> Put(Put(EmptyObject, "job", Str(env.job)), "request", Obj(body))]
        ELSE [status |-> "err", body |-> EmptyObject, error |-> env.error]
    ELSE IF v \in ChangesVariants THEN
        IF env.ok
        THEN [status |-> "ok", error |-> "",
              body |-> Put(Put(EmptyObject, "changes", Arr(env.changes)), "request", Obj(body))]
        ELSE [status |-> "err", body |-> EmptyObject, error |-> env.error]
    ELSE IF v = "OctoPrintSettingsLoadRequest" THEN
        IF env.ok
        THEN [status |-> "ok", error |-> "",
              body |-> Put(Put(Put(Put(EmptyObject, "request", Obj(body)),
                                   "parent_commit", Str(env.parent_commit)),
                               "data", Str(env.data)),
                           "format", Str("Yaml"))]
        ELSE [status |-> "err", body |-> EmptyObject, error |-> env.error]
    ELSE Panic

\* Ok(r) => Ok(NatsReply::<variant>(r)), Err(e) => Err(e)
Wrap(variant, r) ==
    [status |-> r.status, error |-> r.error,
     reply |-> IF r.status = "ok" THEN [variant |-> variant, body |-> r.body] ELSE NoReply]

todo == [status |-> "panic", error |-> Panic.error, reply |-> NoReply]

\* NatsRequest::handle: one arm per variant
handle(request, env) ==
    LET v == request.variant
        r == StructHandle(v, request.body, env)
    IN  CASE v = "SystemdManagerDisableUnitRequest" -> Wrap("SystemdManagerDisableUnitReply", r)
          [] v = "SystemdManagerEnableUnitRequest" -> Wrap("SystemdManagerEnableUnitReply", r)
          [] v = "SystemdManagerReloadUnitRequest" -> Wrap("SystemdManagerReloadUnitReply", r)
          [] v = "SystemdManagerRestartUnitRequest" -> Wrap("SystemdManagerRestartUnitReply", r)
          [] v = "SystemdManagerStartUnitRequest" -> Wrap("SystemdManagerStartUnitReply", r)
          [] v = "SystemdManagerStopUnitRequest" -> Wrap("SystemdManagerStopUnitReply", r)
          [] v = "OctoPrintSettingsLoadRequest" -> Wrap("OctoPrintSettingsLoadReply", r)
          [] v = "OctoPrintSettingsApplyRequest" -> Wrap("OctoPrintSettingsApplyReply", r)
          [] OTHER -> todo

\* RequestErrorMsg { error, subject_pattern, request }
RequestErrorMsg(error, subject_pattern, request) ==
    Put(Put(Put(EmptyObject, "error", Str(error)),
            "subject_pattern", Subj(subject_pattern)),
        "request", Obj(SerializeRequest(request)))

handle_requestAlwaysReply(request, subject_pattern, result) ==
    to_vec(SerializeReply([variant |-> ReplyVariantOf(request.variant),
                           body |-> Put(EmptyObject, "request", Obj(request.body))]))

\* NatsSubscriber::handle_request, once request.handle() has returned result
handle_request(request, subject_pattern, result) ==
    IF result.status = "ok"
    THEN to_vec(SerializeReply(result.reply))
    ELSE to_vec(RequestErrorMsg(result.error, subject_pattern, request))

----------------------------------------------------------------------------
(* NatsSubscriber::new *)

\* sys_info::hostname() on the device: Some(name), or None when the lookup fails.
sys_info_hostname == Some("raspberrypi")

\* sys_info::hostname().unwrap_or_else(|_| "localhost".into())
SystemHostname == IF sys_info_hostname = None THEN "localhost" ELSE sys_info_hostname[1]

DEFAULT_NATS_EDGE_SUBJECT == <<"pi", "localhost", ">">>

\* format!("pi.{}.>", hostname)
get_default_nats_subject == <<"pi", sys_info_hostname[1], ">">>

\* A URI is kept as the sequence of its characters.
DEFAULT_NATS_URI ==
    <<"n", "a", "t", "s", ":", "/", "/", "l", "o", "c", "a", "l", "h", "o", "s", "t", ":",
      "4", "2", "2", "3">>

RECURSIVE contains(_, _)
\* str::contains: pat occurs in s at some position
contains(s, pat) ==
    IF Len(s) < Len(pat) THEN FALSE
    ELSE IF SubSeq(s, 1, Len(pat)) = pat THEN TRUE
    ELSE contains(Tail(s), pat)

\* The arguments clap leaves to new() when only the defaults apply.
DefaultArgs ==
    [subject |-> None, hostname |-> None, workers |-> 1, nats_server_uri |-> None,
     nats_creds |-> None]

\* The ArgMatches of clap_command for a command line: an option that was not
\* given and has a default_value holds that default.
clap_command(cli) ==
    [cli EXCEPT !.subject = IF cli.subject = None THEN Some(DEFAULT_NATS_EDGE_SUBJECT) ELSE @,
                !.nats_server_uri = IF cli.nats_server_uri = None THEN Some(DEFAULT_NATS_URI) ELSE @]

newKeepsCase(args) ==
    LET nats_server_uri == IF args.nats_server_uri = None THEN DEFAULT_NATS_URI
                           ELSE args.nats_server_uri[1]
    IN  [hostname |-> IF args.hostname = None THEN SystemHostname ELSE args.hostname[1],
         workers |-> args.workers,
         nats_server_uri |-> nats_server_uri,
         require_tls |-> contains(nats_server_uri, <<"t", "l", "s">>),
         nats_creds |-> args.nats_creds,
         subject |-> IF args.subject = None THEN get_default_nats_subject ELSE args.subject[1]]

newTlsFromScheme(args) ==
    LET nats_server_uri == IF args.nats_server_uri = None THEN DEFAULT_NATS_URI
                           ELSE args.nats_server_uri[1]
    IN  [hostname |-> to_lowercase(IF args.hostname = None THEN SystemHostname ELSE args.hostname[1]),
         workers |-> args.workers,
         nats_server_uri |-> nats_server_uri,
         require_tls |-> Len(nats_server_uri) >= 3 /\ SubSeq(nats_server_uri, 1, 3) = <<"t", "l", "s">>,
         nats_creds |-> args.nats_creds,
         subject |-> IF args.subject = None THEN get_default_nats_subject ELSE args.subject[1]]

\* The fields of the NatsSubscriber: the device id is the --hostname argument
\* (or the system's hostname), lower-cased; require_tls is read off the URI.
new(args) ==
    LET nats_server_uri == IF args.nats_server_uri = None THEN DEFAULT_NATS_URI
                           ELSE args.nats_server_uri[1]
    IN  [hostname |-> to_lowercase(IF args.hostname = None THEN SystemHostname ELSE args.hostname[1]),
         workers |-> args.workers,
         nats_server_uri |-> nats_server_uri,
         require_tls |-> contains(nats_server_uri, <<"t", "l", "s">>),
         nats_creds |-> args.nats_creds,
         subject |-> IF args.subject = None THEN get_default_nats_subject ELSE args.subject[1]]

----------------------------------------------------------------------------
(* The dispatcher: NatsSubscriber::subscribe_nats_subject *)

NameObject(name) == Put(EmptyObject, "name", Str(name))

\* The messages the environment may deliver: subject, payload bytes, reply inbox.
Messages ==
    {[subject |-> Systemd1Manager("StartUnit"), payload |-> to_vec(NameObject("octoprint.service")),
      reply |-> Some("_INBOX.a")],
     [subject |-> Systemd1Manager("StartUnit"), payload |-> to_vec(NameObject("octoprint.service")),
      reply |-> None],
     [subject |-> Systemd1Manager("StopUnit"), payload |-> to_vec(NameObject("klipper.service")),
      reply |-> Some("_INBOX.b")],
     [subject |-> Systemd1Manager("StopUnit"), payload |-> to_vec(EmptyObject),
      reply |-> Some("_INBOX.a")],
     [subject |-> <<"pi", "MyHost", "dbus", "org", "freedesktop", "systemd1", "Manager", "StartUnit">>,
      payload |-> to_vec(NameObject("octoprint.service")), reply |-> Some("_INBOX.b")],
     [subject |-> <<"pi", "settings", "klipper", "load">>,
      payload |-> to_vec(Put(EmptyObject, "format", Str("Yaml"))), reply |-> Some("_INBOX.b")]}

Args == [hostname : {Some("MyHost")}, workers : 0 .. MaxWorkers, nats_server_uri : {None},
         nats_creds : {None}, subject : {None}]

NoResult == [status |-> "none", error |-> "", reply |-> NoReply]

NoRequest == [variant |-> "none", body |-> EmptyObject]

InFlightPcs == {"handling", "publishing"}

\* The futures for_each_concurrent holds: created and not yet complete.
InFlight == {i \in 1 .. taken : tasks[i].pc \in InFlightPcs}

\* Handler invocations that have started and not yet finished.
Handling == {i \in 1 .. taken : tasks[i].pc = "handling"}

CanTakeOneMore(n, limit) == limit = 0 \/ n <= limit

CanTakeAlways(n, limit) == TRUE

\* for_each_concurrent(limit, ..): the stream is polled for the next message only
\* while fewer than limit futures are in flight; a limit of 0 is no limit.
CanTake(n, limit) == limit = 0 \/ n < limit

DispatchIgnoresDecodeError(decoded, reply) ==
    IF reply # None THEN "handle" ELSE "skip"

\* The match on deserialize_payload's result and the `if let Some(reply_inbox)`.
Dispatch(decoded, reply) ==
    IF decoded.ok
    THEN IF reply # None THEN "handle" ELSE "skip"
    ELSE "drop"

reply_inboxShared(i) == Some("_INBOX.a")

\* The reply address the closure publishes to: its own message's.
reply_inbox(i) == inbound[i].reply

Init ==
    /\ \E args \in Args : self = new(clap_command(args))
    /\ pc = "connecting"
    /\ attempts = 0
    /\ inbound = <<>>
    /\ ended = FALSE
    /\ taken = 0
    /\ tasks = <<>>
    /\ published = <<>>
    /\ codec = [stage |-> "idle"]
    /\ router = [stage |-> "idle"]
    /\ command = [stage |-> "idle"]
    /\ connection = [stage |-> "idle"]
    /\ flush = [stage |-> "idle"]

\* try_init_nats_client fails: warn, sleep 2000 ms, try again.
TryInitFails ==
    /\ pc = "connecting"
    /\ attempts < MaxConnectAttempts
    /\ attempts' = attempts + 1
    /\ UNCHANGED <<pc, self, inbound, ended, taken, tasks, published, codec, router, command, connection, flush>>

TryInitSucceeds ==
    /\ pc = "connecting"
    /\ attempts' = attempts + 1
    /\ pc' = "connected"
    /\ UNCHANGED <<self, inbound, ended, taken, tasks, published, codec, router, command, connection, flush>>

\* nats_client.subscribe(..).await.unwrap()
Subscribe ==
    /\ pc = "connected"
    /\ pc' = "listening"
    /\ UNCHANGED <<self, attempts, inbound, ended, taken, tasks, published, codec, router, command, connection, flush>>

SubscribeFails ==
    /\ pc = "connected"
    /\ pc' = "panicked"
    /\ UNCHANGED <<self, attempts, inbound, ended, taken, tasks, published, codec, router, command, connection, flush>>

\* The server delivers a message to the subscription.
Deliver(m) ==
    /\ pc = "listening"
    /\ ~ended
    /\ Len(inbound) < MaxMessages
    /\ inbound' = Append(inbound, m)
    /\ UNCHANGED <<pc, self, attempts, ended, taken, tasks, published, codec, router, command, connection, flush>>

\* The subscription is closed: the stream ends after what it has delivered.
StreamEnds ==
    /\ pc = "listening"
    /\ ~ended
    /\ ended' = TRUE
    /\ UNCHANGED <<pc, self, attempts, inbound, taken, tasks, published, codec, router, command, connection, flush>>

\* for_each_concurrent pulls the next message and polls the closure's future up
\* to its first await: canonicalize, decode, and call the handler.
Receive ==
    /\ pc = "listening"
    /\ taken < Len(inbound)
    /\ CanTake(Cardinality(InFlight), self.workers)
    /\ LET i == taken + 1
           message == inbound[i]
           subject_pattern == replace_subject_pattern(message.subject, self.hostname, Placeholder)
           decoded == deserialize_payload(subject_pattern, message.payload)
           what == Dispatch(decoded, message.reply)
           request == IF decoded.ok THEN decoded.request ELSE NoRequest
           panics == /\ what = "handle"
                     /\ decoded.ok
                     /\ \A env \in Environments : handle(request, env).status = "panic"
           task == [pc |-> IF what = "handle"
                           THEN (IF panics THEN "panicked" ELSE "handling")
                           ELSE "done",
                    subject_pattern |-> subject_pattern,
                    decoded |-> decoded.ok,
                    request |-> request,
                    calls |-> IF what = "handle" THEN 1 ELSE 0,
                    result |-> NoResult]
       IN  /\ taken' = i
           /\ tasks' = Append(tasks, task)
           /\ pc' = IF panics THEN "panicked" ELSE pc
    /\ UNCHANGED <<self, attempts, inbound, ended, published, codec, router, command, connection, flush>>

\* request.handle() returns; handle_request serializes the outcome and the
\* closure calls nats_client.publish(reply_inbox, payload).
HandlerReturns(i, env) ==
    /\ pc = "listening"
    /\ i \in 1 .. taken
    /\ tasks[i].pc = "handling"
    /\ LET result == handle(tasks[i].request, env)
           payload == handle_request(tasks[i].request, tasks[i].subject_pattern, result)
       IN  /\ result.status # "panic"
           /\ tasks' = [tasks EXCEPT ![i].pc = "publishing", ![i].result = result]
           /\ published' = Append(published, [to |-> reply_inbox(i)[1], payload |-> payload, msg |-> i])
    /\ UNCHANGED <<pc, self, attempts, inbound, ended, taken, codec, router, command, connection, flush>>

PublishResolvesUnwraps(i, ok) ==
    /\ pc = "listening"
    /\ i \in 1 .. taken
    /\ tasks[i].pc = "publishing"
    /\ ok \in BOOLEAN
    /\ tasks' = [tasks EXCEPT ![i].pc = IF ok THEN "done" ELSE "panicked"]
    /\ pc' = IF ok THEN pc ELSE "panicked"
    /\ UNCHANGED <<self, attempts, inbound, ended, taken, published, codec, router, command, connection, flush>>

\* The publish resolves: Ok(_) => (), Err(e) => error!(..): either way nothing but
\* the log records it, and the future is complete.
PublishResolves(i, ok) ==
    /\ pc = "listening"
    /\ i \in 1 .. taken
    /\ tasks[i].pc = "publishing"
    /\ ok \in BOOLEAN
    /\ tasks' = [tasks EXCEPT ![i].pc = "done"]
    /\ UNCHANGED <<pc, self, attempts, inbound, ended, taken, published, codec, router, command, connection, flush>>

ReturnsWhenStreamEnds ==
    /\ pc = "listening"
    /\ ended
    /\ pc' = "returned"
    /\ UNCHANGED <<self, attempts, inbound, ended, taken, tasks, published, codec, router, command, connection, flush>>

\* The stream has ended and every future is complete: for_each_concurrent
\* completes and subscribe_nats_subject returns Ok(()).
Returns ==
    /\ pc = "listening"
    /\ ended
    /\ taken = Len(inbound)
    /\ InFlight = {}
    /\ pc' = "returned"
    /\ UNCHANGED <<self, attempts, inbound, ended, taken, tasks, published, codec, router, command, connection, flush>>

Next ==
    \/ TryInitFails
    \/ TryInitSucceeds
    \/ Subscribe
    \/ SubscribeFails
    \/ \E m \in Messages : Deliver(m)
    \/ StreamEnds
    \/ Receive
    \/ \E i \in 1 .. MaxMessages, env \in Environments : HandlerReturns(i, env)
    \/ \E i \in 1 .. MaxMessages, ok \in BOOLEAN : PublishResolves(i, ok)
    \/ Returns

Spec == Init /\ [][Next]_vars

----------------------------------------------------------------------------
(* What the dispatcher did for message i, read back from the inbound message *)

PatternOf(i) == replace_subject_pattern(inbound[i].subject, self.hostname, Placeholder)

DecodedOf(i) == deserialize_payload(PatternOf(i), inbound[i].payload)

PublishesOf(i) == {k \in 1 .. Len(published) : published[k].msg = i}

\* The closure of message i will not run again: it completed or it panicked.
Ended(i) == tasks[i].pc \in {"done", "panicked"}

HasDeviceSegment(i) ==
    \E n \in 1 .. Len(inbound[i].subject) : to_lowercase(inbound[i].subject[n]) = self.hostname

IsErrorEnvelope(payload, request, subject_pattern, error) ==
    /\ Kind(payload) = "obj"
    /\ payload[2]["error"] = Str(error)
    /\ payload[2]["subject_pattern"] = Subj(subject_pattern)
    /\ Kind(payload[2]["request"]) = "obj"
    /\ DeserializeRequest(payload[2]["request"]) = [ok |-> TRUE, request |-> request]
    /\ payload[2]["subject"] = Absent

IsTypedReply(payload) ==
    /\ Kind(payload) = "obj"
    /\ Kind(payload[2]["subject"]) = "subj"
    /\ \E w \in ReplyVariants : ReplyTag(w) = payload[2]["subject"][2]

----------------------------------------------------------------------------
(* C1 *)

\* C1 as stated: with worker_count = N, at most N handler invocations have
\* started and not yet finished, for every configured N.
C1_AtMostWorkersHandling == Cardinality(Handling) <= self.workers

\* C1 amended: for every configured N >= 1 at most N handler invocations (and at
\* most N closure futures) are in flight; N = 0 is no limit.
C1_AtMostWorkersHandlingWhenPositive ==
    self.workers >= 1 =>
        /\ Cardinality(Handling) <= self.workers
        /\ Cardinality(InFlight) <= self.workers

\* Every slot is taken by a running handler while a delivered message waits.
C1_Witness ==
    /\ self.workers >= 1
    /\ Cardinality(Handling) = self.workers
    /\ taken < Len(inbound)

----------------------------------------------------------------------------
(* C2 *)

\* C2: every payload published to a reply address is the outcome of handling the
\* request decoded from the very message that carried that address: it goes to
\* that message's reply inbox, and it echoes that message's request.
C2_RepliesNotMisattributed ==
    \A k \in 1 .. Len(published) :
        LET p == published[k]
            i == p.msg
            d == DecodedOf(i)
        IN  /\ i \in 1 .. taken
            /\ inbound[i].reply = Some(p.to)
            /\ d.ok
            /\ tasks[i].result.status \in {"ok", "err"}
            /\ p.payload = handle_request(d.request, PatternOf(i), tasks[i].result)
            /\ IF tasks[i].result.status = "ok"
               THEN p.payload[2]["request"] = Obj(d.request.body)
               ELSE p.payload[2]["request"] = Obj(SerializeRequest(d.request))
            /\ Cardinality(PublishesOf(i)) = 1

\* Two messages with different requests and reply inboxes were handled
\* concurrently and their replies were published in the opposite order.
C2_Witness ==
    \E j, k \in 1 .. Len(published) :
        /\ j < k
        /\ published[j].msg > published[k].msg
        /\ published[j].to # published[k].to
        /\ tasks[published[j].msg].request # tasks[published[k].msg].request

----------------------------------------------------------------------------
(* C3 *)

\* C3: a message that decodes and carries a reply address gets exactly one
\* publish attempt to that address, made after its handler completed and
\* carrying the handler's outcome; a failed attempt is not retried.
C3_ExactlyOnePublish ==
    \A i \in 1 .. taken :
        (DecodedOf(i).ok /\ inbound[i].reply # None) =>
            /\ Cardinality(PublishesOf(i)) <= 1
            /\ \A k \in PublishesOf(i) :
                   /\ tasks[i].result.status \in {"ok", "err"}
                   /\ published[k].to = inbound[i].reply[1]
                   /\ published[k].payload =
                          handle_request(DecodedOf(i).request, PatternOf(i), tasks[i].result)
            /\ Ended(i) => Cardinality(PublishesOf(i)) = 1

----------------------------------------------------------------------------
(* C4 *)

\* C4: every message that decodes causes exactly one invocation of the handler
\* of its variant, with or without a reply address; without one nothing is
\* published.
C4_DecodedIsHandledOnce ==
    \A i \in 1 .. taken :
        DecodedOf(i).ok =>
            /\ tasks[i].calls <= 1
            /\ Ended(i) => tasks[i].calls = 1
            /\ inbound[i].reply = None => PublishesOf(i) = {}

----------------------------------------------------------------------------
(* C5 *)

\* C5: a message whose decoding fails is dropped: its closure is complete at
\* once, no handler is invoked, nothing is published for it, and the message is
\* never decoded again (it has the one closure the stream made for it).
C5_DecodeFailureDrops ==
    /\ Len(tasks) = taken
    /\ taken <= Len(inbound)
    /\ \A i \in 1 .. taken :
           ~DecodedOf(i).ok =>
               /\ ~tasks[i].decoded
               /\ tasks[i].pc = "done"
               /\ tasks[i].calls = 0
               /\ tasks[i].result = NoResult
               /\ PublishesOf(i) = {}

\* Both kinds of decode failure happened to messages that carry a reply
\* address: an unknown canonical pattern, and a malformed payload for a known one.
C5_Witness ==
    \E i, j \in 1 .. taken :
        /\ ~DecodedOf(i).ok /\ ~DecodedOf(j).ok
        /\ inbound[i].reply # None /\ inbound[j].reply # None
        /\ \E v \in RequestVariants : RequestTag(v) = PatternOf(i)
        /\ ~ \E v \in RequestVariants : RequestTag(v) = PatternOf(j)

----------------------------------------------------------------------------
(* C6 *)

\* C6: a message whose subject has no segment matching the device id produces
\* no handler invocation and no reply.
C6_UnroutedIsDropped ==
    \A i \in 1 .. taken :
        ~HasDeviceSegment(i) =>
            /\ PatternOf(i) = inbound[i].subject
            /\ tasks[i].calls = 0
            /\ PublishesOf(i) = {}

----------------------------------------------------------------------------
(* C7 *)

\* C7: when the handler of request R, received under canonical pattern P,
\* returns an error, the outcome is the ErrorEnvelope {request: R,
\* subject_pattern: P, error: the handler's error text}; it is published to the
\* message's reply address, and no typed Reply is published for that message.
C7_HandlerErrorBecomesEnvelope ==
    \A i \in 1 .. taken :
        tasks[i].result.status = "err" =>
            /\ inbound[i].reply # None
            /\ PublishesOf(i) # {}
            /\ \A k \in PublishesOf(i) :
                   /\ published[k].to = inbound[i].reply[1]
                   /\ IsErrorEnvelope(published[k].payload, DecodedOf(i).request,
                                      PatternOf(i), tasks[i].result.error)
                   /\ ~IsTypedReply(published[k].payload)

\* A handler returned an error, its envelope was published and the closure is
\* complete.
C7_Witness ==
    \E i \in 1 .. taken :
        /\ tasks[i].result.status = "err"
        /\ tasks[i].result.error # ""
        /\ tasks[i].pc = "done"
        /\ PublishesOf(i) # {}

----------------------------------------------------------------------------
(* The protocol codec and the handlers as pure functions: specification      *)
(* SpecCodec draws a request, then encodes and decodes it, or handles it.    *)

FieldChoices ==
    [name : {Str("octoprint.service"), Str("doesnotexist.service")},
     files : {Arr(<<>>), Arr(<<"octoprint.service">>), Arr(<<"octoprint.service", "klipper.service">>)},
     format : {Str(f) : f \in SettingsFormat},
     parent_commit : {Str("abc123")},
     data : {Str(""), Str("webcam: {}")},
     commit : {Str("abc123"), Str("def456")}]

\* Every value of the payload struct of variant v over the field values above
Bodies(v) ==
    {[f \in FieldNames |-> IF f \in FieldsOf(RequestFields(v)) THEN c[f] ELSE Absent] :
        c \in FieldChoices}

Requests == UNION {{[variant |-> v, body |-> b] : b \in Bodies(v)} : v \in RequestVariants}

\* The canonical patterns a message may arrive under: every request tag, and one
\* that is no request's tag.
Patterns == {RequestTag(v) : v \in RequestVariants} \cup {<<"pi", Placeholder, "status", "boot">>}

IdleDispatcher ==
    /\ self = new(DefaultArgs)
    /\ pc = "connecting"
    /\ attempts = 0
    /\ inbound = <<>>
    /\ ended = FALSE
    /\ taken = 0
    /\ tasks = <<>>
    /\ published = <<>>

InitCodec ==
    /\ IdleDispatcher
    /\ router = [stage |-> "idle"]
    /\ command = [stage |-> "idle"]
    /\ connection = [stage |-> "idle"]
    /\ flush = [stage |-> "idle"]
    /\ \E request \in Requests :
           codec = [stage |-> "request", request |-> request, bytes |-> NotJson,
                    pattern |-> <<>>, decoded |-> DecodeError, serde |-> DecodeError,
                    result |-> NoResult, env |-> BusDown, calls |-> <<>>, payload |-> NotJson]

\* serde_json::to_vec(&request)
Encode ==
    /\ codec.stage = "request"
    /\ codec' = [codec EXCEPT !.stage = "encoded",
                              !.bytes = to_vec(SerializeRequest(codec.request))]
    /\ UNCHANGED <<dispatcherVars, router, command, connection, flush>>

\* The bytes are decoded under a canonical pattern, and by NatsRequest's own
\* Deserialize.
Decode(pattern) ==
    /\ codec.stage = "encoded"
    /\ codec' = [codec EXCEPT !.stage = "decoded",
                              !.pattern = pattern,
                              !.decoded = deserialize_payload(pattern, codec.bytes),
                              !.serde = DeserializeRequest(codec.bytes)]
    /\ UNCHANGED <<dispatcherVars, router, command, connection, flush>>

\* request.handle().await with the collaborator answering env
Handle(env) ==
    /\ codec.stage = "request"
    /\ codec' = [codec EXCEPT !.stage = "handled", !.result = handle(codec.request, env),
                              !.env = env, !.calls = ManagerCalls(codec.request, env)]
    /\ UNCHANGED <<dispatcherVars, router, command, connection, flush>>

\* self.handle_request(request, &subject_pattern): the payload for the reply inbox
Reply ==
    /\ codec.stage = "handled"
    /\ codec.result.status # "panic"
    /\ codec' = [codec EXCEPT
                   !.stage = "replied",
                   !.payload = handle_request(codec.request, RequestTag(codec.request.variant),
                                              codec.result)]
    /\ UNCHANGED <<dispatcherVars, router, command, connection, flush>>

NextCodec ==
    \/ Encode
    \/ \E pattern \in Patterns : Decode(pattern)
    \/ \E env \in Environments \cup {BusDown} : Handle(env)
    \/ Reply

SpecCodec == InitCodec /\ [][NextCodec]_vars

----------------------------------------------------------------------------
(* C8 *)

\* C8: whenever handle(R) succeeds, the reply echoes the request (reply.request
\* = R) and is the reply variant declared for R's request variant.
C8_ReplyEchoesRequest ==
    (codec.stage = "handled" /\ codec.result.status = "ok") =>
        /\ codec.result.reply.body["request"] = Obj(codec.request.body)
        /\ codec.result.reply.variant = ReplyVariantOf(codec.request.variant)
        /\ ReplyTag(codec.result.reply.variant) = RequestTag(codec.request.variant)

\* A reload request (whose handler calls restart_unit) was handled successfully.
C8_Witness ==
    /\ codec.stage = "handled"
    /\ codec.result.status = "ok"
    /\ codec.request.variant = "SystemdManagerReloadUnitRequest"
    /\ codec.result.reply.body["request"] = Obj(codec.request.body)

----------------------------------------------------------------------------
(* C9 *)

\* C9: decoding the encoding of R under R's canonical pattern yields R again
\* (and so does NatsRequest's own tagged Deserialize); whatever pattern the
\* bytes are decoded under, a successful decode yields the variant of that
\* pattern, so R's encoding never decodes to another variant under R's pattern.
C9_RoundTrip ==
    codec.stage = "decoded" =>
        /\ codec.serde = [ok |-> TRUE, request |-> codec.request]
        /\ codec.pattern = RequestTag(codec.request.variant) =>
               codec.decoded = [ok |-> TRUE, request |-> codec.request]
        /\ codec.decoded.ok => RequestTag(codec.decoded.request.variant) = codec.pattern
        /\ (codec.decoded.ok /\ codec.decoded.request.variant # codec.request.variant) =>
               codec.pattern # RequestTag(codec.request.variant)

\* The bytes of a stop-unit request decode under the connect-account pattern
\* (whose struct is the same) only as the connect-account variant, while the
\* tagged Deserialize still yields the stop-unit request.
C9_Witness ==
    /\ codec.stage = "decoded"
    /\ codec.request.variant = "SystemdManagerStopUnitRequest"
    /\ codec.pattern = RequestTag("ConnectPrintNannyCloudRequest")
    /\ codec.decoded.ok
    /\ codec.decoded.request.variant = "ConnectPrintNannyCloudRequest"
    /\ codec.serde.request = codec.request

----------------------------------------------------------------------------
(* The subject router as a pure function: specification SpecRouter draws a   *)
(* subject and a --hostname argument and canonicalizes the subject.          *)

Segments == {"pi", "myhost", "MyHost", "status", "boot"}

RECURSIVE SubjectsOfLen(_)
SubjectsOfLen(n) ==
    IF n = 0 THEN {<<>>}
    ELSE {Append(s, seg) : s \in SubjectsOfLen(n - 1), seg \in Segments}

Subjects == UNION {SubjectsOfLen(n) : n \in 1 .. MaxSubjectLen}

HostnameArgs == {None, Some("myhost"), Some("MyHost"), Some("MYHOST"), Some("Pi")}

InitRouter ==
    /\ IdleDispatcher
    /\ codec = [stage |-> "idle"]
    /\ command = [stage |-> "idle"]
    /\ connection = [stage |-> "idle"]
    /\ flush = [stage |-> "idle"]
    /\ \E subject \in Subjects, hostname \in HostnameArgs :
           router = [stage |-> "subject", subject |-> subject, hostname |-> hostname,
                     pattern |-> <<>>]

\* Request::replace_subject_pattern(&message.subject, &self.hostname, "{pi_id}")
Canonicalize ==
    /\ router.stage = "subject"
    /\ router' = [router EXCEPT
                    !.stage = "pattern",
                    !.pattern = replace_subject_pattern(
                                    router.subject,
                                    new([DefaultArgs EXCEPT !.hostname = router.hostname]).hostname,
                                    Placeholder)]
    /\ UNCHANGED <<dispatcherVars, codec, command, connection, flush>>

NextRouter == Canonicalize

SpecRouter == InitRouter /\ [][NextRouter]_vars

----------------------------------------------------------------------------
(* C10 *)

DeviceId(hostname) == IF hostname = None THEN SystemHostname ELSE hostname[1]

\* The positions of the segments that equal the device id, case-insensitively
Matching(subject, hostname) ==
    {n \in 1 .. Len(subject) : to_lowercase(subject[n]) = to_lowercase(DeviceId(hostname))}

\* C10: canonicalization keeps the number and the order of the segments and
\* changes a single segment: the (first) segment equal to the device id,
\* compared case-insensitively, becomes {pi_id}; every other segment is
\* unchanged, and a subject with no such segment is unchanged.  In particular
\* canonicalize("pi.myhost.status.boot", "myhost") = "pi.{pi_id}.status.boot".
C10_SingleSegmentSubstitution ==
    router.stage = "pattern" =>
        LET m == Matching(router.subject, router.hostname) IN
        /\ Len(router.pattern) = Len(router.subject)
        /\ \A n \in 1 .. Len(router.subject) :
               router.pattern[n] =
                   IF m # {} /\ n = CHOOSE x \in m : \A y \in m : x <= y
                   THEN Placeholder
                   ELSE router.subject[n]
        /\ (router.subject = <<"pi", "myhost", "status", "boot">> /\ router.hostname = Some("myhost"))
               => router.pattern = <<"pi", Placeholder, "status", "boot">>

\* A mixed-case --hostname and a mixed-case segment: the second segment of
\* pi.MyHost.status.boot was replaced.
C10_Witness ==
    /\ router.stage = "pattern"
    /\ router.hostname = Some("MYHOST")
    /\ router.subject = <<"pi", "MyHost", "status", "boot">>
    /\ router.pattern = <<"pi", Placeholder, "status", "boot">>


----------------------------------------------------------------------------
(* The connection manager: specification SpecConnect draws the command-line  *)
(* arguments, builds the subscriber with new() and makes connection attempts *)
(* with try_init_nats_client, against a file system and a server that answer *)
(* each attempt as they please.                                              *)

UriChars == {"t", "l", "s", "/"}

MaxUriLen == 4

UrisOfLen(n) == [1 .. n -> UriChars]

Uris == UNION {UrisOfLen(n) : n \in 0 .. MaxUriLen}

CredsPath == "/etc/printnanny/nats.creds"

ConnectArgs ==
    [hostname : {None}, workers : {1},
     nats_server_uri : {None} \cup {Some(u) : u \in Uris},
     nats_creds : {None, Some(CredsPath)},
     subject : {None, Some(<<"pi", "raspberrypi", ">">>)}]

\* The outcomes of one attempt: with_credentials_file(..).await? may fail on
\* the file; connect(..).await fails or yields the client.
Outcomes(options) ==
    {"connected", "unreachable"}
        \cup (IF options.credentials # None THEN {"credentials_unreadable"} ELSE {})

try_init_nats_clientRequiresFile(subscriber, exists) ==
    [credentials |-> subscriber.nats_creds,
     require_tls |-> subscriber.require_tls,
     uri |-> subscriber.nats_server_uri]

\* try_init_nats_client: the connect options each arm of the match builds;
\* exists is what nats_creds.exists() answers.
try_init_nats_client(subscriber, exists) ==
    IF subscriber.nats_creds # None
    THEN IF exists
         THEN [credentials |-> subscriber.nats_creds,
               require_tls |-> subscriber.require_tls,
               uri |-> subscriber.nats_server_uri]
         ELSE [credentials |-> None,
               require_tls |-> subscriber.require_tls,
               uri |-> subscriber.nats_server_uri]
    ELSE [credentials |-> None,
          require_tls |-> subscriber.require_tls,
          uri |-> subscriber.nats_server_uri]

NoAttempt ==
    [exists |-> FALSE, outcome |-> "none",
     options |-> [credentials |-> None, require_tls |-> FALSE, uri |-> <<>>]]

InitConnect ==
    /\ IdleDispatcher
    /\ codec = [stage |-> "idle"]
    /\ router = [stage |-> "idle"]
    /\ command = [stage |-> "idle"]
    /\ flush = [stage |-> "idle"]
    /\ \E args \in ConnectArgs :
           connection = [stage |-> "args", args |-> args, subscriber |-> new(DefaultArgs),
                         tries |-> 0, last |-> NoAttempt]

\* NatsSubscriber::new(&args), args being the matches of clap_command
New ==
    /\ connection.stage = "args"
    /\ connection' = [connection EXCEPT !.stage = "connecting",
                                        !.subscriber = new(clap_command(connection.args))]
    /\ UNCHANGED <<dispatcherVars, codec, router, command, flush>>

\* One turn of the while loop of subscribe_nats_subject: an attempt, and on
\* Err(_) the 2000 ms sleep before the next one.
TryInit(exists, outcome) ==
    /\ connection.stage = "connecting"
    /\ LET options == try_init_nats_client(connection.subscriber, exists)
       IN  /\ outcome \in Outcomes(options)
           /\ outcome # "connected" => connection.tries < MaxConnectAttempts
           /\ connection' = [connection EXCEPT
                               !.stage = IF outcome = "connected" THEN "connected" ELSE "connecting",
                               !.tries = connection.tries + 1,
                               !.last = [exists |-> exists, outcome |-> outcome,
                                         options |-> options]]
    /\ UNCHANGED <<dispatcherVars, codec, router, command, flush>>

NextConnect ==
    \/ New
    \/ \E exists \in BOOLEAN, outcome \in {"connected", "unreachable", "credentials_unreadable"} :
           TryInit(exists, outcome)

SpecConnect == InitConnect /\ [][NextConnect]_vars

----------------------------------------------------------------------------
(* C19 *)

\* The bus URI the arguments configure.
ConfiguredUri ==
    IF connection.args.nats_server_uri = None THEN DEFAULT_NATS_URI
    ELSE connection.args.nats_server_uri[1]

\* The substring "tls" occurs in uri.
HasTls(uri) ==
    \E i \in 1 .. Len(uri) : i + 2 <= Len(uri) /\ uri[i] = "t" /\ uri[i + 1] = "l" /\ uri[i + 2] = "s"

\* C19: every connection attempt goes to the configured URI with the subscriber's
\* TLS requirement; it carries the configured credentials exactly when a path
\* is configured and its file exists; with a path configured but no file, or
\* with no path at all, it is made without credentials, and a missing file is
\* never what makes it fail.
C19_MissingCredentialsDegrade ==
    connection.stage \in {"connecting", "connected"} /\ connection.tries > 0 =>
        LET a == connection.last
            path == connection.args.nats_creds
        IN  /\ a.options.uri = ConfiguredUri
            /\ a.options.require_tls = connection.subscriber.require_tls
            /\ (path # None /\ a.exists) => a.options.credentials = path
            /\ (path # None /\ ~a.exists) =>
                   a.options.credentials = None /\ a.outcome # "credentials_unreadable"
            /\ path = None => a.options.credentials = None

\* A path is configured, its file is missing, and the attempt connected without
\* credentials.
C19_Witness ==
    /\ connection.stage = "connected"
    /\ connection.args.nats_creds = Some(CredsPath)
    /\ ~connection.last.exists
    /\ connection.last.options.credentials = None
    /\ connection.last.outcome = "connected"

----------------------------------------------------------------------------
(* C20 *)

\* C20: require_tls is TRUE exactly when the configured URI contains "tls", and
\* every connection attempt, with or without credentials, is made with that
\* value.
C20_RequireTlsIffUriContainsTls ==
    /\ connection.stage \in {"connecting", "connected"} =>
           connection.subscriber.require_tls = HasTls(ConfiguredUri)
    /\ connection.stage \in {"connecting", "connected"} /\ connection.tries > 0 =>
           connection.last.options.require_tls = HasTls(ConfiguredUri)

\* An authenticated attempt to a URI that has "tls" after its first character
\* required TLS.
C20_Witness ==
    /\ connection.stage \in {"connecting", "connected"}
    /\ connection.tries > 0
    /\ connection.last.options.credentials # None
    /\ connection.last.options.require_tls
    /\ Len(ConfiguredUri) >= 4
    /\ SubSeq(ConfiguredUri, 2, 4) = <<"t", "l", "s">>


----------------------------------------------------------------------------
(* The domain command handlers of nats/src/commands.rs.  Each handler is a   *)
(* straight line of at most three awaits: publish the Started event, run the *)
(* subprocess, publish the terminal event.  handle_pi_*_command give, for    *)
(* one command, what each of these awaits is asked to do (None: the arm has  *)
(* no such await); the actions of SpecCommands run them, with the transport  *)
(* and the subprocess answering as they please.                              *)

MaxPi == 2

Pis == 1 .. MaxPi

\* The PolymorphicPiEventRequest values handle_incoming may be given.
IncomingMessages ==
    [kind : {"PiBootCommandRequest"}, event_type : {"Reboot", "Shutdown", "other"},
     pi : Pis, version : {""}]
        \cup [kind : {"PiCamCommandRequest"}, event_type : {"CamStart", "CamStop"},
              pi : Pis, version : {""}]
        \cup [kind : {"PiSoftwareUpdateCommandRequest"},
              event_type : {"Swupdate", "SwupdateRollback"}, pi : Pis, version : {"0.5.1"}]
        \cup [kind : {"PiBootStatusRequest"}, event_type : {"BootStarted"},
              pi : Pis, version : {""}]

\* build_boot_status_payload: the subject and the status request (id and
\* created_dt, a fresh uuid and the clock, are left out).
build_boot_status_payload(cmd, event_type, payload) ==
    [subject |-> <<"pi", ToString(cmd.pi), "status", "boot">>,
     kind |-> "PiBootStatusRequest", event_type |-> event_type, payload |-> payload,
     pi |-> cmd.pi, version |-> ""]

build_cam_status_payloadOnBootSubject(cmd, event_type, payload) ==
    [subject |-> <<"pi", ToString(cmd.pi), "status", "boot">>,
     kind |-> "PiCamStatusRequest", event_type |-> event_type, payload |-> payload,
     pi |-> cmd.pi, version |-> ""]

build_cam_status_payload(cmd, event_type, payload) ==
    [subject |-> <<"pi", ToString(cmd.pi), "status", "cam">>,
     kind |-> "PiCamStatusRequest", event_type |-> event_type, payload |-> payload,
     pi |-> cmd.pi, version |-> ""]

build_swupdate_status_payload(cmd, event_type, payload) ==
    [subject |-> <<"pi", ToString(cmd.pi), "status", "swupdate">>,
     kind |-> "PiSoftwareUpdateStatusRequest", event_type |-> event_type, payload |-> payload,
     pi |-> cmd.pi, version |-> cmd.version]

\* An arm that only warns.
NoAction == [started |-> None, program |-> None, success |-> None, error |-> None]

handle_pi_boot_commandPublishesSuccess(cmd) ==
    CASE cmd.event_type = "Reboot" ->
             [started |-> Some("RebootStarted"), program |-> Some(<<"reboot">>),
              success |-> Some("RebootSuccess"), error |-> Some("RebootError")]
      [] cmd.event_type = "Shutdown" ->
             [started |-> Some("ShutdownStarted"), program |-> Some(<<"shutdown">>),
              success |-> None, error |-> None]
      [] OTHER -> NoAction

handle_pi_boot_command(cmd) ==
    CASE cmd.event_type = "Reboot" ->
             [started |-> Some("RebootStarted"), program |-> Some(<<"reboot">>),
              success |-> None, error |-> Some("RebootError")]
      [] cmd.event_type = "Shutdown" ->
             [started |-> None, program |-> Some(<<"shutdown">>),
              success |-> None, error |-> None]
      [] OTHER -> NoAction

handle_pi_cam_command(cmd) ==
    CASE cmd.event_type = "CamStart" ->
             [started |-> Some("CamStarted"),
              program |-> Some(<<"systemctl", "restart", "printnanny-cam">>),
              success |-> Some("CamStartSuccess"), error |-> Some("CamError")]
      [] cmd.event_type = "CamStop" ->
             [started |-> None,
              program |-> Some(<<"systemctl", "stop", "printnanny-cam">>),
              success |-> Some("CamStopped"), error |-> Some("CamError")]

handle_pi_swupdate_commandRunsRollback(cmd) ==
    [started |-> Some("SwupdateStarted"), program |-> Some(<<"swupdate">>),
     success |-> Some("SwupdateSuccess"), error |-> Some("SwupdateError")]

handle_pi_swupdate_command(cmd) ==
    CASE cmd.event_type = "Swupdate" ->
             [started |-> Some("SwupdateStarted"), program |-> Some(<<"swupdate">>),
              success |-> Some("SwupdateSuccess"), error |-> Some("SwupdateError")]
      [] cmd.event_type = "SwupdateRollback" -> NoAction

handle_incoming(msg) ==
    CASE msg.kind = "PiBootCommandRequest" -> handle_pi_boot_command(msg)
      [] msg.kind = "PiCamCommandRequest" -> handle_pi_cam_command(msg)
      [] msg.kind = "PiSoftwareUpdateCommandRequest" -> handle_pi_swupdate_command(msg)
      [] OTHER -> NoAction

\* The builder each handler calls for its own status events.
StatusEvent(cmd, event_type, payload) ==
    CASE cmd.kind = "PiBootCommandRequest" -> build_boot_status_payload(cmd, event_type, payload)
      [] cmd.kind = "PiCamCommandRequest" -> build_cam_status_payload(cmd, event_type, payload)
      [] cmd.kind = "PiSoftwareUpdateCommandRequest" ->
             build_swupdate_status_payload(cmd, event_type, payload)

\* Captured bytes: text, or bytes String::from_utf8 rejects.
Utf8(text) == [utf8 |-> TRUE, text |-> text]

NotUtf8 == [utf8 |-> FALSE, text |-> ""]

CapturedBytes == {Utf8("out"), Utf8("err"), NotUtf8}

\* What Command::output().await yields: Err (the program could not be run), or
\* the exit status (code None: killed by a signal) with the captured output.
SpawnError == [ran |-> FALSE, code |-> None, stdout |-> Utf8(""), stderr |-> Utf8("")]

Outputs ==
    {SpawnError}
        \cup [ran : {TRUE}, code : {Some(0), Some(1), None},
              stdout : CapturedBytes, stderr : CapturedBytes]

\* output.status.success()
success(output) == output.code = Some(0)

\* The HashMap the error arms build: exit_code, stdout, stderr.
ErrorPayload(output) ==
    [exit_code |-> output.code, stdout |-> output.stdout.text, stderr |-> output.stderr.text]

NoEvent ==
    [subject |-> <<>>, kind |-> "none", event_type |-> "none", payload |-> None,
     pi |-> 0, version |-> ""]

PublishEntry(event, ok) == [op |-> "publish", program |-> <<>>, event |-> event, ok |-> ok]

SpawnEntry(program, ok) == [op |-> "spawn", program |-> program, event |-> NoEvent, ok |-> ok]

InitCommands ==
    /\ IdleDispatcher
    /\ codec = [stage |-> "idle"]
    /\ router = [stage |-> "idle"]
    /\ connection = [stage |-> "idle"]
    /\ flush = [stage |-> "idle"]
    /\ \E msg \in IncomingMessages :
           command = [stage |-> "received", msg |-> msg, log |-> <<>>, output |-> SpawnError,
                      pending |-> NoEvent, result |-> "none"]

\* nats_client.publish(subject, req).await? of the Started event
PublishStarted(ok) ==
    /\ command.stage = "received"
    /\ LET plan == handle_incoming(command.msg)
       IN  /\ plan.started # None
           /\ command' = [command EXCEPT
                            !.log = Append(@, PublishEntry(
                                        StatusEvent(command.msg, plan.started[1], None), ok)),
                            !.stage = IF ok THEN "started" ELSE "returned",
                            !.result = IF ok THEN "none" ELSE "Err"]
    /\ UNCHANGED <<dispatcherVars, codec, router, connection, flush>>

\* Command::new(..).output().await? (swupdate.run().await?) and the match on
\* output.status.success(), up to the publish of the terminal event.
Spawn(output) ==
    /\ LET plan == handle_incoming(command.msg)
       IN  /\ plan.program # None
           /\ \/ command.stage = "started"
              \/ command.stage = "received" /\ plan.started = None
           /\ LET terminal == IF success(output) THEN plan.success ELSE plan.error
                  text == output.stdout.utf8 /\ output.stderr.utf8
                  returns == IF ~output.ran THEN "Err"
                             ELSE IF terminal = None THEN "Ok"
                             ELSE IF ~success(output) /\ ~text THEN "Err"
                             ELSE "none"
              IN  command' = [command EXCEPT
                                !.log = Append(@, SpawnEntry(plan.program[1], output.ran)),
                                !.output = output,
                                !.stage = IF returns = "none" THEN "terminal" ELSE "returned",
                                !.result = returns,
                                !.pending =
                                    IF returns # "none" THEN NoEvent
                                    ELSE StatusEvent(command.msg, terminal[1],
                                             IF success(output) THEN None
                                             ELSE Some(ErrorPayload(output)))]
    /\ UNCHANGED <<dispatcherVars, codec, router, connection, flush>>

PublishTerminalIgnoresError(ok) ==
    /\ command.stage = "terminal"
    /\ command' = [command EXCEPT
                     !.log = Append(@, PublishEntry(command.pending, ok)),
                     !.stage = "returned",
                     !.result = "Ok"]
    /\ UNCHANGED <<dispatcherVars, codec, router, connection, flush>>

\* nats_client.publish(subject, req).await? of the terminal event, then Ok(())
PublishTerminal(ok) ==
    /\ command.stage = "terminal"
    /\ command' = [command EXCEPT
                     !.log = Append(@, PublishEntry(command.pending, ok)),
                     !.stage = "returned",
                     !.result = IF ok THEN "Ok" ELSE "Err"]
    /\ UNCHANGED <<dispatcherVars, codec, router, connection, flush>>

\* warn!(..) and Ok(())
Warn ==
    /\ command.stage = "received"
    /\ handle_incoming(command.msg) = NoAction
    /\ command' = [command EXCEPT !.stage = "returned", !.result = "Ok"]
    /\ UNCHANGED <<dispatcherVars, codec, router, connection, flush>>

NextCommands ==
    \/ \E ok \in BOOLEAN : PublishStarted(ok)
    \/ \E output \in Outputs : Spawn(output)
    \/ \E ok \in BOOLEAN : PublishTerminal(ok)
    \/ Warn

SpecCommands == InitCommands /\ [][NextCommands]_vars


----------------------------------------------------------------------------
(* What one invocation did, read back from its log *)

StartedTypes == {"RebootStarted", "CamStarted", "SwupdateStarted"}

SuccessTypes == {"CamStartSuccess", "CamStopped", "SwupdateSuccess", "RebootSuccess"}

ErrorTypes == {"RebootError", "CamError", "SwupdateError"}

IsPublished(entry) == entry.op = "publish" /\ entry.ok

\* The status events the invocation has published, in order.
Events == SelectSeq(command.log, IsPublished)

AllPublishesSucceeded == \A k \in 1 .. Len(command.log) : command.log[k].ok

\* The positions in the log at which a subprocess was run.
Spawns == {k \in 1 .. Len(command.log) : command.log[k].op = "spawn" /\ command.log[k].ok}

\* The commands with a defined action that publish status events.
HasLifecycle(msg) ==
    \/ msg.kind = "PiBootCommandRequest" /\ msg.event_type = "Reboot"
    \/ msg.kind = "PiCamCommandRequest"
    \/ msg.kind = "PiSoftwareUpdateCommandRequest" /\ msg.event_type = "Swupdate"

\* The commands without a defined action, and the events that are no command.
HasNoAction(msg) ==
    \/ msg.kind = "PiBootCommandRequest" /\ msg.event_type \notin {"Reboot", "Shutdown"}
    \/ msg.kind = "PiSoftwareUpdateCommandRequest" /\ msg.event_type = "SwupdateRollback"
    \/ msg.kind \notin {"PiBootCommandRequest", "PiCamCommandRequest",
                        "PiSoftwareUpdateCommandRequest"}

----------------------------------------------------------------------------
(* C11 *)

\* C11: when a reboot, camera start, camera stop or software update command
\* has returned, every publish having succeeded and its subprocess having
\* exited successfully, it has published exactly two status events: Started,
\* then the Success (or operation-specific terminal) event with no payload.
C11_SuccessLifecycle ==
    ( /\ command.stage = "returned"
      /\ HasLifecycle(command.msg)
      /\ AllPublishesSucceeded
      /\ Spawns # {}
      /\ command.output.ran
      /\ success(command.output) ) =>
        /\ Len(Events) = 2
        /\ Events[1].event.event_type \in StartedTypes
        /\ Events[1].event.payload = None
        /\ Events[2].event.event_type \in SuccessTypes
        /\ Events[2].event.payload = None

----------------------------------------------------------------------------
(* C12 *)

\* C12: when such a command has returned, every publish having succeeded and
\* its subprocess having exited unsuccessfully with exit code c, standard
\* output o and standard error e (both text), it has published exactly two
\* status events: Started, then Error with payload {exit_code: c, stdout: o,
\* stderr: e}.
C12_FailureLifecycle ==
    ( /\ command.stage = "returned"
      /\ HasLifecycle(command.msg)
      /\ AllPublishesSucceeded
      /\ Spawns # {}
      /\ command.output.ran
      /\ command.output.code \notin {None, Some(0)}
      /\ command.output.stdout.utf8
      /\ command.output.stderr.utf8 ) =>
        /\ Len(Events) = 2
        /\ Events[1].event.event_type \in StartedTypes
        /\ Events[2].event.event_type \in ErrorTypes
        /\ Events[2].event.payload =
               Some([exit_code |-> command.output.code,
                     stdout |-> command.output.stdout.text,
                     stderr |-> command.output.stderr.text])

----------------------------------------------------------------------------
(* C13 *)

\* C13: a side-effect subprocess is run only after a Started event of the
\* invocation has been published successfully, and if publishing Started
\* failed the handler has returned an error and has run no subprocess.
C13_SideEffectOnlyAfterStarted ==
    /\ \A k \in Spawns :
           \E j \in 1 .. k - 1 :
               /\ IsPublished(command.log[j])
               /\ command.log[j].event.event_type \in StartedTypes
    /\ \A j \in 1 .. Len(command.log) :
           ( /\ command.log[j].op = "publish"
             /\ command.log[j].event.event_type \in StartedTypes
             /\ ~command.log[j].ok ) =>
               /\ command.stage = "returned"
               /\ command.result = "Err"
               /\ Spawns = {}

----------------------------------------------------------------------------
(* C14 *)

IsStarted(k) == Events[k].event.event_type \in StartedTypes

IsTerminal(k) == Events[k].event.event_type \in SuccessTypes \cup ErrorTypes

\* C14: the status events of one invocation follow Started -> Success or
\* Started -> Error: at most one Started, at most one terminal event, every
\* terminal event preceded by the Started event, nothing after a terminal event.
C14_StatusStateMachine ==
    /\ Cardinality({k \in 1 .. Len(Events) : IsStarted(k)}) <= 1
    /\ Cardinality({k \in 1 .. Len(Events) : IsTerminal(k)}) <= 1
    /\ \A k \in 1 .. Len(Events) :
           IsTerminal(k) =>
               /\ \E j \in 1 .. k - 1 : IsStarted(j)
               /\ k = Len(Events)

----------------------------------------------------------------------------
(* C17 *)

\* C17: handling a command variant without a defined action, or an event that
\* is no command, runs no subprocess and publishes no status event, and the
\* handler returns Ok.
C17_UnimplementedVariantDoesNothing ==
    HasNoAction(command.msg) =>
        /\ command.log = <<>>
        /\ command.stage \in {"received", "returned"}
        /\ command.stage = "returned" => command.result = "Ok"

\* A software-update rollback has been handled.
C17_Witness ==
    /\ command.stage = "returned"
    /\ command.msg.kind = "PiSoftwareUpdateCommandRequest"
    /\ command.msg.event_type = "SwupdateRollback"
    /\ command.result = "Ok"


----------------------------------------------------------------------------
(* C15 *)

\* The closure of the next message ends in the Err arm of deserialize_payload.
DecodeErrorStep == Receive /\ ~DecodedOf(taken + 1).ok

\* A handler returns Err(e).
HandlerErrorStep ==
    \E i \in 1 .. MaxMessages, env \in Environments :
        HandlerReturns(i, env) /\ handle(tasks[i].request, env).status = "err"

\* The publish of a reply returns Err(e).
PublishErrorStep == \E i \in 1 .. MaxMessages : PublishResolves(i, FALSE)

\* C15: a decode error, a handler error or a reply-publish error leaves the
\* dispatcher subscribed and running, with the stream open and nothing it was
\* delivered lost; subscribe_nats_subject returns only once the stream has
\* ended, and the dispatcher stops otherwise only by a panic that is none of
\* these errors (the subscribe call failing, or a handler that is todo!()).
C15_NoErrorClassIsFatal ==
    /\ [][(DecodeErrorStep \/ HandlerErrorStep \/ PublishErrorStep) =>
              (pc' = "listening" /\ ended' = ended /\ inbound' = inbound)]_vars
    /\ [](pc = "returned" => ended)
    /\ [](pc = "panicked" =>
              \/ taken = 0
              \/ \E i \in 1 .. taken :
                     /\ tasks[i].pc = "panicked"
                     /\ \A env \in Environments : handle(tasks[i].request, env).status = "panic")

\* With one worker: the first message failed to decode or its handler returned
\* an error, and the message after it was then handled and answered.
C15_Witness ==
    /\ pc = "listening"
    /\ self.workers = 1
    /\ taken = 2
    /\ tasks[1].pc = "done"
    /\ ~tasks[1].decoded \/ tasks[1].result.status = "err"
    /\ tasks[2].pc = "done"
    /\ tasks[2].result.status = "ok"
    /\ PublishesOf(2) # {}

----------------------------------------------------------------------------
(* C16 *)

\* C16: handling any declared request variant ends with a typed reply or with
\* a handler error; none makes the handler crash.
C16_ProtocolIsTotal ==
    codec.stage = "handled" => codec.result.status \in {"ok", "err"}

----------------------------------------------------------------------------
(* C18 *)

\* The scheduling of subscribe_nats_subject: an attempt to connect resolves,
\* the subscribe call resolves, and a message that can be taken is taken.
FairSpec ==
    /\ Spec
    /\ WF_vars(TryInitFails \/ TryInitSucceeds)
    /\ WF_vars(Subscribe \/ SubscribeFails)
    /\ WF_vars(Receive)

\* C18: a failed attempt leaves the dispatcher in its connect loop; nothing is
\* delivered or handled before the subscription; the dispatcher subscribes
\* only after an attempt has succeeded, and once; and once an attempt has
\* succeeded the subscription is eventually established.
C18_RetryUntilConnectedThenSubscribe ==
    /\ [][TryInitFails => pc' = "connecting"]_vars
    /\ [](pc \in {"connecting", "connected"} => inbound = <<>> /\ taken = 0 /\ published = <<>>)
    /\ [][(pc # "listening" /\ pc' = "listening") => pc = "connected"]_vars
    /\ [][pc = "listening" => pc' \notin {"connecting", "connected"}]_vars
    /\ (pc = "connected") ~> (pc = "listening")


----------------------------------------------------------------------------
(* C27 *)

\* The status domain of a command.
DomainOf(msg) ==
    CASE msg.kind = "PiBootCommandRequest" -> "boot"
      [] msg.kind = "PiCamCommandRequest" -> "cam"
      [] msg.kind = "PiSoftwareUpdateCommandRequest" -> "swupdate"
      [] OTHER -> "none"

----------------------------------------------------------------------------
(* C28 *)

IsPublish(entry) == entry.op = "publish"

\* C28: a reboot command whose reboot subprocess exited successfully has
\* published exactly one status event, RebootStarted, and returned Ok; a
\* shutdown command publishes no status event, and when it has returned it has
\* called shutdown and nothing else.
C28_RebootAndShutdownEvents ==
    /\ ( /\ command.stage = "returned"
         /\ command.msg.kind = "PiBootCommandRequest"
         /\ command.msg.event_type = "Reboot"
         /\ Spawns # {}
         /\ success(command.output) ) =>
           /\ Len(Events) = 1
           /\ Events[1].event.event_type = "RebootStarted"
           /\ SelectSeq(command.log, IsPublish) = Events
           /\ command.result = "Ok"
    /\ ( /\ command.msg.kind = "PiBootCommandRequest"
         /\ command.msg.event_type = "Shutdown" ) =>
           /\ SelectSeq(command.log, IsPublish) = <<>>
           /\ command.stage = "returned" =>
                  /\ Len(command.log) = 1
                  /\ command.log[1].op = "spawn"
                  /\ command.log[1].program = <<"shutdown">>

\* A reboot command has returned after reboot exited successfully.
C28_Witness ==
    /\ command.stage = "returned"
    /\ command.msg.kind = "PiBootCommandRequest"
    /\ command.msg.event_type = "Reboot"
    /\ Spawns # {}
    /\ success(command.output)

----------------------------------------------------------------------------
(* C29 *)

\* Started was published and then the subprocess could not be run, or it failed
\* with captured output that is not UTF-8, or the terminal publish failed.
SideEffectNotObserved ==
    /\ Len(Events) >= 1
    /\ Events[1].event.event_type \in StartedTypes
    /\ \/ \E k \in 1 .. Len(command.log) : command.log[k].op = "spawn" /\ ~command.log[k].ok
       \/ /\ Spawns # {}
          /\ ~success(command.output)
          /\ ~(command.output.stdout.utf8 /\ command.output.stderr.utf8)
       \/ \E k \in 1 .. Len(command.log) :
              /\ command.log[k].op = "publish"
              /\ ~command.log[k].ok
              /\ command.log[k].event.event_type \notin StartedTypes

\* C29: in each of these cases the handler has returned an error and Started is
\* the only status event it has published.
C29_UnobservedSideEffectIsHandlerError ==
    (command.stage = "returned" /\ SideEffectNotObserved) =>
        /\ command.result = "Err"
        /\ Len(Events) = 1

\* A camera start whose terminal publish failed.
C29_Witness ==
    /\ command.stage = "returned"
    /\ command.msg.event_type = "CamStart"
    /\ SideEffectNotObserved
    /\ Spawns # {}
    /\ Len(command.log) = 3


----------------------------------------------------------------------------
(* NatsSubscriber::try_flush_buffer: specification SpecFlush draws a request  *)
(* buffer and runs the loop over it, the transport answering each publish as  *)
(* it pleases.                                                                *)

MaxBuffer == 3

\* (subject, payload) pairs a buffer may hold
BufferedRequests ==
    {<<<<"pi", "1", "status", "boot">>, "RebootStarted">>,
     <<<<"pi", "1", "status", "cam">>, "CamStarted">>,
     <<<<"pi", "1", "status", "cam">>, "CamError">>}

Buffers == UNION {[1 .. n -> BufferedRequests] : n \in 0 .. MaxBuffer}

InitFlush ==
    /\ IdleDispatcher
    /\ codec = [stage |-> "idle"]
    /\ router = [stage |-> "idle"]
    /\ command = [stage |-> "idle"]
    /\ connection = [stage |-> "idle"]
    /\ \E request_buffer \in Buffers :
           flush = [stage |-> "flushing", given |-> request_buffer,
                    request_buffer |-> request_buffer, next |-> 1, log |-> <<>>,
                    result |-> "none"]

FlushPublishSkipsFailure(ok) ==
    /\ flush.stage = "flushing"
    /\ flush.next <= Len(flush.request_buffer)
    /\ LET request == flush.request_buffer[flush.next]
       IN  flush' = [flush EXCEPT
                       !.log = Append(@, [subject |-> request[1], payload |-> request[2],
                                          ok |-> ok]),
                       !.next = @ + 1]
    /\ UNCHANGED <<dispatcherVars, codec, router, command, connection>>

\* One turn of the for loop: publish the entry; Ok(_) goes on to the next
\* entry, Err(e) returns Err(NatsError::PublishError) through the `?`.
FlushPublish(ok) ==
    /\ flush.stage = "flushing"
    /\ flush.next <= Len(flush.request_buffer)
    /\ LET request == flush.request_buffer[flush.next]
       IN  flush' = [flush EXCEPT
                       !.log = Append(@, [subject |-> request[1], payload |-> request[2],
                                          ok |-> ok]),
                       !.next = IF ok THEN @ + 1 ELSE @,
                       !.stage = IF ok THEN "flushing" ELSE "returned",
                       !.result = IF ok THEN "none" ELSE "PublishError"]
    /\ UNCHANGED <<dispatcherVars, codec, router, command, connection>>

\* The iterator is exhausted: Ok(())
FlushReturns ==
    /\ flush.stage = "flushing"
    /\ flush.next > Len(flush.request_buffer)
    /\ flush' = [flush EXCEPT !.stage = "returned", !.result = "Ok"]
    /\ UNCHANGED <<dispatcherVars, codec, router, command, connection>>

NextFlush ==
    \/ \E ok \in BOOLEAN : FlushPublish(ok)
    \/ FlushReturns

SpecFlush == InitFlush /\ [][NextFlush]_vars

----------------------------------------------------------------------------
(* C30 *)

\* The entries whose publish succeeded, in the order they were published.
Flushed == {k \in 1 .. Len(flush.log) : flush.log[k].ok}

\* C30: the k-th publish of try_flush_buffer is of the k-th buffered entry, and
\* only the last one made can have failed; when it has returned PublishError the
\* last publish failed and exactly the entries before it were published; when
\* it has returned Ok every entry was published once, in order; the buffer is
\* as it was given.
C30_FlushIsFifoAndStopsAtFirstFailure ==
    flush.stage \in {"flushing", "returned"} =>
        /\ flush.request_buffer = flush.given
        /\ Len(flush.log) <= Len(flush.given)
        /\ \A k \in 1 .. Len(flush.log) :
               /\ flush.log[k].subject = flush.given[k][1]
               /\ flush.log[k].payload = flush.given[k][2]
               /\ k < Len(flush.log) => flush.log[k].ok
        /\ (flush.stage = "returned" /\ flush.result = "PublishError") =>
               /\ flush.log # <<>>
               /\ ~flush.log[Len(flush.log)].ok
               /\ Flushed = 1 .. Len(flush.log) - 1
        /\ (flush.stage = "returned" /\ flush.result # "PublishError") =>
               /\ flush.result = "Ok"
               /\ Flushed = 1 .. Len(flush.given)

\* The flush of a three-entry buffer stopped at its second entry.
C30_Witness ==
    /\ flush.stage = "returned"
    /\ flush.result = "PublishError"
    /\ Len(flush.given) = 3
    /\ Len(flush.log) = 2
    /\ flush.log[1].ok


----------------------------------------------------------------------------
(* C26 *)

\* C26: when the command line gives no routing pattern, the subject the
\* dispatcher subscribes to is pi.<device-id>.>, <device-id> being the device
\* identifier the dispatcher routes by.
C26_DefaultSubjectIsDeviceNamespace ==
    (connection.stage \in {"connecting", "connected"} /\ connection.args.subject = None) =>
        connection.subscriber.subject = <<"pi", connection.subscriber.hostname, ">">>


----------------------------------------------------------------------------
(* C23 *)

SystemdVariants == JobVariants \cup ChangesVariants

\* The service-manager operation each request variant names.
NamedOperation(v) ==
    CASE v = "SystemdManagerStartUnitRequest" -> "start_unit"
      [] v = "SystemdManagerStopUnitRequest" -> "stop_unit"
      [] v = "SystemdManagerRestartUnitRequest" -> "restart_unit"
      [] v = "SystemdManagerReloadUnitRequest" -> "reload_unit"
      [] v = "SystemdManagerEnableUnitRequest" -> "enable_unit_files"
      [] v = "SystemdManagerDisableUnitRequest" -> "disable_unit_files"

\* C23: a system-service proxy handler that reaches the service manager makes
\* exactly one call, of the operation its request variant names; start, stop,
\* restart and reload pass the requested unit name and mode "replace"; enable
\* and disable pass the whole requested list, and their reply carries the
\* changes the manager applied.
C23_ProxyCallsNamedOperation ==
    ( /\ codec.stage \in {"handled", "replied"}
      /\ codec.request.variant \in SystemdVariants
      /\ codec.env.bus ) =>
        LET v == codec.request.variant
        IN  /\ Len(codec.calls) = 1
            /\ codec.calls[1].op = NamedOperation(v)
            /\ v \in JobVariants =>
                   /\ codec.calls[1].args[1] = codec.request.body["name"]
                   /\ codec.calls[1].args[2] = "replace"
            /\ v \in ChangesVariants =>
                   /\ codec.calls[1].args[1] = codec.request.body["files"]
                   /\ codec.result.status = "ok" =>
                          codec.result.reply.body["changes"] = Arr(codec.env.changes)

----------------------------------------------------------------------------
(* C24 *)

\* C24: when the service-manager operation, or reaching the service manager,
\* fails, the proxy handler returns an error and no reply, and the payload
\* handle_request makes of it for the reply inbox is the ErrorEnvelope of the
\* request with that error.
C24_ManagerFailureIsHandlerError ==
    ( /\ codec.stage \in {"handled", "replied"}
      /\ codec.request.variant \in SystemdVariants
      /\ ~codec.env.ok ) =>
        /\ codec.result.status = "err"
        /\ codec.result.reply = NoReply
        /\ codec.result.error = codec.env.error
        /\ codec.stage = "replied" =>
               IsErrorEnvelope(codec.payload, codec.request,
                               RequestTag(codec.request.variant), codec.env.error)

\* An enable request failed because the bus could not be reached, and its
\* ErrorEnvelope was built.
C24_Witness ==
    /\ codec.stage = "replied"
    /\ codec.request.variant = "SystemdManagerEnableUnitRequest"
    /\ ~codec.env.bus
    /\ codec.calls = <<>>
    /\ codec.result.status = "err"


----------------------------------------------------------------------------
(* C22 *)

\* C22 as stated: run() never returns a value, not even after the
\* subscription's message stream has ended.
C22_RunNeverReturns == pc # "returned"

\* C22 amended: run() does not return while the subscription's stream is open
\* or a message it delivered is still waiting or in flight; once the stream
\* has ended and every delivered message has been taken and its closure is
\* complete, run() returns Ok(()).
C22_RunReturnsOnlyAfterDrainedStream ==
    pc = "returned" =>
        /\ ended
        /\ taken = Len(inbound)
        /\ \A i \in 1 .. taken : tasks[i].pc = "done"

\* run() has returned after a message was handled and answered.
C22_Witness ==
    /\ pc = "returned"
    /\ \E i \in 1 .. taken : PublishesOf(i) # {}

----------------------------------------------------------------------------
(* C25 *)

\* A closure future leaves the in-flight set only by completing.
SlotHeldUntilComplete ==
    \A i \in 1 .. taken :
        tasks[i].pc \in InFlightPcs => tasks'[i].pc \in InFlightPcs \cup {"done"}

----------------------------------------------------------------------------
(* C21 *)

\* The scheduling C21 assumes: FairSpec, and every handler invocation and every
\* reply publish that has started resolves.
FairHandlersSpec ==
    /\ FairSpec
    /\ WF_vars(\E i \in 1 .. MaxMessages, env \in Environments : HandlerReturns(i, env))
    /\ WF_vars(\E i \in 1 .. MaxMessages, ok \in BOOLEAN : PublishResolves(i, ok))

\* C21: every message the subscription has delivered is eventually taken and
\* decoded, however many are pending, and if it decodes its handler is
\* invoked.
C21_DeliveredIsEventuallyHandled ==
    \A i \in 1 .. MaxMessages :
        (Len(inbound) >= i) ~> (taken >= i /\ (tasks[i].decoded => tasks[i].calls = 1))

====
